---- MODULE Spec2Model ----
(***************************************************************************)
(* A model of src/mod.ts (@nomadshiba/codec): the two VarInt functions,    *)
(* the leaf codecs and the composite codecs Option, Tuple, Struct, Vector, *)
(* Enum and Mapping, as the JavaScript engine evaluates them.              *)
(*                                                                         *)
(* Every encode and decode is a pure function of its argument, so each is  *)
(* an operator; the state machine is a caller that picks a codec and a     *)
(* value (or a received buffer), calls encode and then decode.             *)
(***************************************************************************)
EXTENDS Integers, Sequences, FiniteSets, TLC

VARIABLES pc, codec, value, encoded, decoded

vars == <<pc, codec, value, encoded, decoded>>

(***************************************************************************)
(* JavaScript numbers.  The integers the program computes with go up to    *)
(* 2^53, beyond the integers of the model checker, so an integer n is the  *)
(* record [hi, lo] with n = hi * 2^28 + lo and 0 <= lo < 2^28 (hi < 0 for  *)
(* a negative n).  The representation is unique.                           *)
(***************************************************************************)
Limb == 2^28

Num(hi, lo) == [hi |-> hi, lo |-> lo]

\* The number of a model integer (|i| < 2^31).
FromInt(i) == Num(i \div Limb, i % Limb)

Zero == FromInt(0)

NumAdd(a, b) ==
    LET s == a.lo + b.lo
    IN  Num(a.hi + b.hi + (s \div Limb), s % Limb)

NumLess(a, b) == a.hi < b.hi \/ (a.hi = b.hi /\ a.lo < b.lo)

NumLeq(a, b) == a = b \/ NumLess(a, b)

\* The numbers that are not integers: hi * 2^28 + lo + 1/2, NaN, and the
\* infinities (sign 1 or -1).
Half(hi, lo) == [hi |-> hi, lo |-> lo, half |-> TRUE]

NaN == [nan |-> TRUE]

Infinity(sign) == [inf |-> sign]

IsInteger(n) == DOMAIN n = {"hi", "lo"}

\* n < 0 for any number n.
IsNegative(n) ==
    IF "nan" \in DOMAIN n THEN FALSE
    ELSE IF "inf" \in DOMAIN n THEN n.inf < 0
    ELSE n.hi < 0

\* Number.isSafeInteger: an integer with |n| <= 2^53 - 1.
IsSafeInteger(n) ==
    /\ IsInteger(n)
    /\ n.hi < 2^25
    /\ n.hi > -(2^25) \/ (n.hi = -(2^25) /\ n.lo >= 1)

(***************************************************************************)
(* 32-bit words.  The bitwise operators of JavaScript convert their        *)
(* operands to 32-bit integers; a word is [h4, l28], its top 4 bits and    *)
(* its low 28 bits.                                                        *)
(***************************************************************************)
Word(h4, l28) == [h4 |-> h4, l28 |-> l28]

\* ToUint32 / ToInt32 of a number: the low 32 bits of its two's complement.
ToWord(n) == Word(n.hi % 16, n.lo)

\* The number a word stands for as an unsigned 32-bit integer (the result of >>>).
Uint32ToNum(w) == Num(w.h4, w.l28)

\* The number a word stands for as a signed 32-bit integer (the result of |, &, <<).
Int32ToNum(w) == IF w.h4 >= 8 THEN Num(w.h4 - 16, w.l28) ELSE Num(w.h4, w.l28)

RECURSIVE BitOr(_, _)
\* Bitwise or of two naturals.
BitOr(a, b) ==
    IF a = 0 THEN b
    ELSE IF b = 0 THEN a
    ELSE 2 * BitOr(a \div 2, b \div 2) + (IF a % 2 = 1 \/ b % 2 = 1 THEN 1 ELSE 0)

Or32(v, w) == Word(BitOr(v.h4, w.h4), BitOr(v.l28, w.l28))

\* g << shift for a natural g < 2^28: the shift count is taken modulo 32 and
\* the bits shifted past bit 31 are lost.
Shl32(g, shift) ==
    LET s == shift % 32
    IN  IF s >= 28
        THEN Word((g * 2^(s - 28)) % 16, 0)
        ELSE Word((g \div 2^(28 - s)) % 16, (g % 2^(28 - s)) * 2^s)

\* value >>> 7: the operand is first cut to its low 32 bits.
Ushr7(n) ==
    LET w == ToWord(n)
    IN  Num(0, w.h4 * 2^21 + (w.l28 \div 128))

(***************************************************************************)
(* Results of a call: a returned value, or a thrown error.  NoReturn is    *)
(* the outcome of a call whose loop never exits.                           *)
(***************************************************************************)
Throw(err) == [ok |-> FALSE, err |-> err]

Encoded(b) == [ok |-> TRUE, bytes |-> b]

Return(v) == [ok |-> TRUE, val |-> v]

NoReturn == Throw("NoReturn")

None == [none |-> TRUE]

(***************************************************************************)
(* VarInt                                                                  *)
(***************************************************************************)
RECURSIVE encodeVarIntLoop(_, _)
\* The while loop of encodeVarInt and the push that follows it.
encodeVarIntLoop(v, parts) ==
    IF NumLess(FromInt(127), v)
    THEN encodeVarIntLoop(Ushr7(v), Append(parts, BitOr(ToWord(v).l28 % 128, 128)))
    ELSE Append(parts, ToWord(v).l28 % 128)

\* A faulty encodeVarInt that accepts every non-negative integer.
encodeVarIntNoRange(v) ==
    IF IsNegative(v) \/ ~IsInteger(v)
    THEN Throw("RangeError")
    ELSE Encoded(encodeVarIntLoop(v, <<>>))

encodeVarInt(v) ==
    IF IsNegative(v) \/ ~IsSafeInteger(v)
    THEN Throw("RangeError")
    ELSE Encoded(encodeVarIntLoop(v, <<>>))

RECURSIVE decodeVarIntLoopLenient(_, _, _, _)
\* A faulty loop that returns what it has when the data ends.
decodeVarIntLoopLenient(data, word, shift, bytesRead) ==
    IF bytesRead >= Len(data)
    THEN [ok |-> TRUE, value |-> Int32ToNum(word), bytesRead |-> bytesRead]
    ELSE LET byte == data[bytesRead + 1]
             w    == Or32(word, Shl32(byte % 128, shift))
         IN  IF byte \div 128 = 0
             THEN [ok |-> TRUE, value |-> Int32ToNum(w), bytesRead |-> bytesRead + 1]
             ELSE IF shift + 7 > 53
                  THEN Throw("RangeError")
                  ELSE decodeVarIntLoopLenient(data, w, shift + 7, bytesRead + 1)

RECURSIVE decodeVarIntLoop(_, _, _, _)
\* The for loop of decodeVarInt; word is value after its first |=.
decodeVarIntLoop(data, word, shift, bytesRead) ==
    IF bytesRead >= Len(data)
    THEN Throw("Error")
    ELSE LET byte == data[bytesRead + 1]
             w    == Or32(word, Shl32(byte % 128, shift))
         IN  IF byte \div 128 = 0
             THEN IF ~IsSafeInteger(Int32ToNum(w))
                  THEN Throw("RangeError")
                  ELSE [ok |-> TRUE, value |-> Int32ToNum(w), bytesRead |-> bytesRead + 1]
             ELSE IF shift + 7 > 53
                  THEN Throw("RangeError")
                  ELSE decodeVarIntLoop(data, w, shift + 7, bytesRead + 1)

decodeVarInt(data) == decodeVarIntLoop(data, Word(0, 0), 0, 0)

VarIntFns == [kind |-> "varint"]

(***************************************************************************)
(* Typed arrays.  data.subarray(begin, end) with the relative indices of   *)
(* %TypedArray%.prototype.subarray: a negative index counts from the end,  *)
(* both are clamped to the array, an end before begin gives an empty view. *)
(***************************************************************************)
RelativeIndex(n, len) ==
    IF n.hi < 0
    THEN LET m == NumAdd(n, FromInt(len)) IN IF m.hi < 0 THEN 0 ELSE m.lo
    ELSE IF n.hi > 0 \/ n.lo > len THEN len ELSE n.lo

subarray(data, begin, end) ==
    LET from  == RelativeIndex(begin, Len(data))
        final == RelativeIndex(end, Len(data))
    IN  IF final <= from THEN <<>> ELSE SubSeq(data, from + 1, final)

\* data.subarray(begin): to the end of the array.
subarrayFrom(data, begin) == subarray(data, begin, FromInt(Len(data)))

RECURSIVE Concat(_)
\* The bytes of a list of parts, one after the other (the `combined` array).
Concat(parts) ==
    IF parts = <<>> THEN <<>> ELSE Head(parts) \o Concat(Tail(parts))

(***************************************************************************)
(* Values.  A JavaScript value is a record whose field names its type, so  *)
(* that values of different types compare unequal: a number [num], a       *)
(* boolean [bool], a string [str] (its UTF-16 code units), a Uint8Array    *)
(* [u8a], an array [list], an object [obj] (property name -> value), null. *)
(***************************************************************************)
N(n) == [num |-> n]

B(b) == [bool |-> b]

S(units) == [str |-> units]

U8A(b) == [u8a |-> b]

L(items) == [list |-> items]

O(props) == [obj |-> props]

\* A Map: its entries [key, value] in insertion order.
M(entries) == [map |-> entries]

Null == [null |-> TRUE]

Undefined == [undefined |-> TRUE]

(***************************************************************************)
(* TextEncoder / TextDecoder (UTF-8), held by Str.                         *)
(***************************************************************************)
IsHighSurrogate(u) == u >= 55296 /\ u <= 56319

IsLowSurrogate(u) == u >= 56320 /\ u <= 57343

\* The UTF-8 bytes of one code point.
Utf8Bytes(cp) ==
    IF cp < 128 THEN <<cp>>
    ELSE IF cp < 2048 THEN <<192 + (cp \div 64), 128 + (cp % 64)>>
    ELSE IF cp < 65536
         THEN <<224 + (cp \div 4096), 128 + ((cp \div 64) % 64), 128 + (cp % 64)>>
    ELSE <<240 + (cp \div 262144), 128 + ((cp \div 4096) % 64),
           128 + ((cp \div 64) % 64), 128 + (cp % 64)>>

RECURSIVE TextEncode(_)
\* TextEncoder.encode: a surrogate pair is one code point, a lone surrogate
\* is replaced by U+FFFD.
TextEncode(units) ==
    IF units = <<>> THEN <<>>
    ELSE LET u == Head(units)
         IN  IF IsHighSurrogate(u) /\ Len(units) >= 2 /\ IsLowSurrogate(units[2])
             THEN Utf8Bytes(65536 + (u - 55296) * 1024 + (units[2] - 56320))
                      \o TextEncode(Tail(Tail(units)))
             ELSE IF IsHighSurrogate(u) \/ IsLowSurrogate(u)
             THEN Utf8Bytes(65533) \o TextEncode(Tail(units))
             ELSE Utf8Bytes(u) \o TextEncode(Tail(units))

\* The UTF-16 code units of a decoded code point.
Utf16Units(cp) ==
    IF cp < 65536 THEN <<cp>>
    ELSE <<55296 + ((cp - 65536) \div 1024), 56320 + ((cp - 65536) % 1024)>>

RECURSIVE Utf8Decode(_, _, _, _, _, _)
\* The UTF-8 decoder of the Encoding Standard on the bytes data[i..], with
\* its state: the code point so far, the continuation bytes still needed
\* and the bounds of the next continuation byte.  Errors give U+FFFD.
Utf8Decode(data, i, cp, needed, lower, upper) ==
    IF i > Len(data)
    THEN IF needed # 0 THEN <<65533>> ELSE <<>>
    ELSE LET b == data[i]
         IN  IF needed = 0
             THEN IF b < 128 THEN <<b>> \o Utf8Decode(data, i + 1, 0, 0, 128, 191)
                  ELSE IF b >= 194 /\ b <= 223
                  THEN Utf8Decode(data, i + 1, b % 32, 1, 128, 191)
                  ELSE IF b >= 224 /\ b <= 239
                  THEN Utf8Decode(data, i + 1, b % 16, 2,
                                  IF b = 224 THEN 160 ELSE 128,
                                  IF b = 237 THEN 159 ELSE 191)
                  ELSE IF b >= 240 /\ b <= 244
                  THEN Utf8Decode(data, i + 1, b % 8, 3,
                                  IF b = 240 THEN 144 ELSE 128,
                                  IF b = 244 THEN 143 ELSE 191)
                  ELSE <<65533>> \o Utf8Decode(data, i + 1, 0, 0, 128, 191)
             ELSE IF b < lower \/ b > upper
                  THEN <<65533>> \o Utf8Decode(data, i, 0, 0, 128, 191)
                  ELSE IF needed = 1
                       THEN Utf16Units(cp * 64 + (b % 64))
                                \o Utf8Decode(data, i + 1, 0, 0, 128, 191)
                       ELSE Utf8Decode(data, i + 1, cp * 64 + (b % 64), needed - 1, 128, 191)

\* TextDecoder.decode of a decoder made by new TextDecoder(): ignoreBOM is
\* false, so a leading byte order mark EF BB BF is dropped.
TextDecode(data) ==
    IF Len(data) >= 3 /\ SubSeq(data, 1, 3) = <<239, 187, 191>>
    THEN Utf8Decode(data, 4, 0, 0, 128, 191)
    ELSE Utf8Decode(data, 1, 0, 0, 128, 191)

(***************************************************************************)
(* Objects.  An object literal is the sequence of its properties in the    *)
(* order they are written, each [name, codec]; a name is the sequence of   *)
(* its UTF-16 code units.                                                  *)
(***************************************************************************)
RECURSIVE StrLess(_, _)
\* a < b on strings: by code units, a proper prefix first.
StrLess(a, b) ==
    IF a = <<>> THEN b # <<>>
    ELSE IF b = <<>> THEN FALSE
    ELSE IF Head(a) # Head(b) THEN Head(a) < Head(b)
    ELSE StrLess(Tail(a), Tail(b))

\* An array index: the canonical decimal string of an integer in 0 .. 2^32 - 2.
IsArrayIndex(name) ==
    /\ Len(name) >= 1
    /\ \A i \in 1..Len(name) : name[i] >= 48 /\ name[i] <= 57
    /\ Len(name) = 1 \/ name[1] # 48
    /\ \/ Len(name) < 10
       \/ Len(name) = 10 /\ ~StrLess(<<52, 50, 57, 52, 57, 54, 55, 50, 57, 52>>, name)

\* Numeric order of two array indices.
IndexLess(a, b) == Len(a) < Len(b) \/ (Len(a) = Len(b) /\ StrLess(a, b))

\* Array.prototype.sort() with no comparator: strings in code unit order.
sort(names) == SortSeq(names, StrLess)

\* The names of an object's properties in declaration order.
DeclaredNames(obj) == [i \in 1..Len(obj) |-> obj[i].name]

\* Object.keys: the array indices in ascending numeric order, then the other
\* names in the order the properties were created.
ObjectKeys(obj) ==
    LET NotIndex(name) == ~IsArrayIndex(name)
    IN  SortSeq(SelectSeq(DeclaredNames(obj), IsArrayIndex), IndexLess)
            \o SelectSeq(DeclaredNames(obj), NotIndex)

\* obj[name], for a name the object has.
Get(obj, name) == (CHOOSE i \in 1..Len(obj) : obj[i].name = name)

\* keys.indexOf(name): the 0-based position, -1 when absent.
indexOf(keys, name) ==
    IF \E i \in 1..Len(keys) : keys[i] = name
    THEN (CHOOSE i \in 1..Len(keys) : keys[i] = name /\ \A j \in 1..(i - 1) : keys[j] # name) - 1
    ELSE -1

(***************************************************************************)
(* Codecs.  A codec is a record of the fields its constructor sets; kind   *)
(* names its class.                                                        *)
(***************************************************************************)
i8 == [kind |-> "i8", stride |-> 1]

u8 == [kind |-> "u8", stride |-> 1]

u16 == [kind |-> "u16", stride |-> 2]

bool == [kind |-> "bool", stride |-> 1]

str == [kind |-> "str", stride |-> -1]

bytes == [kind |-> "bytes", stride |-> -1]

\* new Bytes(length): the class declares no constructor, so the argument is
\* dropped and the codec is as the singleton.
Bytes(length) == [kind |-> "bytes", stride |-> -1]

Option(c) == [kind |-> "option", codec |-> c, stride |-> -1]

RECURSIVE TupleStrideNoBreak(_, _, _)
\* A faulty loop that marks the stride variable and goes on adding.
TupleStrideNoBreak(codecs, i, stride) ==
    IF i > Len(codecs) THEN stride
    ELSE IF codecs[i].stride < 0 THEN TupleStrideNoBreak(codecs, i + 1, -1)
    ELSE TupleStrideNoBreak(codecs, i + 1, stride + codecs[i].stride)

RECURSIVE TupleStride(_, _, _)
\* The loop of Tuple's constructor over codecs[i..], stride so far.
TupleStride(codecs, i, stride) ==
    IF i > Len(codecs) THEN stride
    ELSE IF codecs[i].stride < 0 THEN -1
    ELSE TupleStride(codecs, i + 1, stride + codecs[i].stride)

Tuple(codecs) == [kind |-> "tuple", codecs |-> codecs, stride |-> TupleStride(codecs, 1, 0)]

Struct(shape) ==
    LET keys  == ObjectKeys(shape)
        tuple == Tuple([i \in 1..Len(keys) |-> shape[Get(shape, keys[i])].codec])
    IN  [kind |-> "struct", shape |-> shape, keys |-> keys, tuple |-> tuple,
         stride |-> tuple.stride]

Vector(c) == [kind |-> "vector", codec |-> c, stride |-> -1]

Enum(variants) ==
    [kind |-> "enum", variants |-> variants, keys |-> sort(ObjectKeys(variants)),
     stride |-> -1]

\* new Mapping(keyCodec, valueCodec): it keeps a Vector of [key, value] tuples.
Mapping(keyCodec, valueCodec) ==
    [kind |-> "mapping", stride |-> -1,
     entriesCodec |-> Vector(Tuple(<<keyCodec, valueCodec>>))]

(***************************************************************************)
(* encode and decode.  Encode(c, v) and Decode(c, data) are the method     *)
(* calls c.encode(v) and c.decode(data), dispatched on the class of c.     *)
(***************************************************************************)
RECURSIVE Encode(_, _)
RECURSIVE Decode(_, _)

\* DataView.setInt8 / getInt8.
I8Encode(v) == Encoded(<<v.num % 256>>)

I8Decode(data) ==
    IF Len(data) < 1 THEN Throw("RangeError")
    ELSE Return(N(IF data[1] >= 128 THEN data[1] - 256 ELSE data[1]))

\* DataView.setUint8 / getUint8.
U8Encode(v) == Encoded(<<v.num % 256>>)

U8Decode(data) ==
    IF Len(data) < 1 THEN Throw("RangeError") ELSE Return(N(data[1]))

\* DataView.setUint16 / getUint16, little-endian.
U16Encode(v) == Encoded(<<v.num % 256, (v.num \div 256) % 256>>)

U16Decode(data) ==
    IF Len(data) < 2 THEN Throw("RangeError") ELSE Return(N(data[1] + 256 * data[2]))

BoolEncode(v) == Encoded(<<IF v.bool THEN 1 ELSE 0>>)

\* data[0] !== 0; data[0] is undefined on an empty array.
BoolDecode(data) == Return(B(IF Len(data) = 0 THEN TRUE ELSE data[1] # 0))

StrEncode(v) == Encoded(TextEncode(v.str))

StrDecode(data) == Return(S(TextDecode(data)))

BytesEncode(v) == Encoded(v.u8a)

BytesDecode(data) == Return(U8A(data))

OptionEncode(c, v) ==
    IF v = Null THEN Encoded(<<0>>)
    ELSE LET enc == Encode(c.codec, v)
         IN  IF ~enc.ok THEN enc ELSE Encoded(<<1>> \o enc.bytes)

OptionDecode(c, data) ==
    IF Len(data) >= 1 /\ data[1] = 0 THEN Return(Null)
    ELSE Decode(c.codec, subarrayFrom(data, FromInt(1)))

RECURSIVE TupleEncodeParts(_, _, _, _)
\* The first loop of Tuple.encode from element i on: the list `parts`.
TupleEncodeParts(codecs, v, i, parts) ==
    IF i > Len(codecs) THEN [ok |-> TRUE, parts |-> parts]
    ELSE LET part == Encode(codecs[i], v.list[i])
         IN  IF ~part.ok THEN part
             ELSE IF codecs[i].stride < 0
             THEN TupleEncodeParts(codecs, v, i + 1,
                      parts \o <<encodeVarInt(FromInt(Len(part.bytes))).bytes, part.bytes>>)
             ELSE TupleEncodeParts(codecs, v, i + 1, Append(parts, part.bytes))

\* A faulty Tuple.encode that frames the whole tuple with its byte length.
TupleEncodeFramed(c, v) ==
    LET r == TupleEncodeParts(c.codecs, v, 1, <<>>)
    IN  IF ~r.ok THEN r
        ELSE Encoded(encodeVarInt(FromInt(Len(Concat(r.parts)))).bytes \o Concat(r.parts))

\* Tuple.encode: the parts, then `combined`, which holds them end to end.
TupleEncode(c, v) ==
    LET r == TupleEncodeParts(c.codecs, v, 1, <<>>)
    IN  IF ~r.ok THEN r ELSE Encoded(Concat(r.parts))

RECURSIVE TupleDecodeLoop(_, _, _, _, _)
\* The loop of Tuple.decode from element i on, with offset and result.
TupleDecodeLoop(codecs, data, i, offset, result) ==
    IF i > Len(codecs) THEN Return(L(result))
    ELSE LET fixed  == codecs[i].stride >= 0
             prefix == decodeVarInt(subarrayFrom(data, offset))
         IN  IF ~fixed /\ ~prefix.ok THEN prefix
             ELSE LET length == IF fixed THEN FromInt(codecs[i].stride) ELSE prefix.value
                      start  == IF fixed THEN offset
                                ELSE NumAdd(offset, FromInt(prefix.bytesRead))
                      part   == subarray(data, start, NumAdd(start, length))
                      item   == Decode(codecs[i], part)
                  IN  IF ~item.ok THEN item
                      ELSE TupleDecodeLoop(codecs, data, i + 1, NumAdd(start, length),
                                           Append(result, item.val))

TupleDecode(c, data) == TupleDecodeLoop(c.codecs, data, 1, Zero, <<>>)

\* Struct.encode: the fields' values in the order of keys, as a tuple.
StructEncode(c, v) ==
    TupleEncode(c.tuple, L([i \in 1..Len(c.keys) |-> v.obj[c.keys[i]]]))

\* Struct.decode: the tuple's i-th element becomes the property keys[i].
StructDecode(c, data) ==
    LET tupleValue == TupleDecode(c.tuple, data)
    IN  IF ~tupleValue.ok THEN tupleValue
        ELSE Return(O([k \in {c.keys[i] : i \in 1..Len(c.keys)} |->
                          tupleValue.val.list[indexOf(c.keys, k) + 1]]))

\* target.set(part, offset) of a typed array.
SetAt(target, part, offset) ==
    [i \in 1..Len(target) |->
        IF i > offset /\ i <= offset + Len(part) THEN part[i - offset] ELSE target[i]]

RECURSIVE VectorEncodeFixed(_, _, _, _)
\* The loop of Vector.encode for a fixed-stride element, from item i on.
VectorEncodeFixed(c, v, i, parts) ==
    IF i > Len(v.list) THEN Encoded(parts)
    ELSE LET part == Encode(c.codec, v.list[i])
         IN  IF ~part.ok THEN part
             ELSE IF Len(part.bytes) + (i - 1) * c.codec.stride > Len(parts)
             THEN Throw("RangeError")
             ELSE VectorEncodeFixed(c, v, i + 1,
                                    SetAt(parts, part.bytes, (i - 1) * c.codec.stride))

RECURSIVE VectorEncodeParts(_, _, _, _)
\* The loop of Vector.encode for a variable-stride element: the list `parts`.
VectorEncodeParts(c, v, i, parts) ==
    IF i > Len(v.list) THEN [ok |-> TRUE, parts |-> parts]
    ELSE LET part == Encode(c.codec, v.list[i])
         IN  IF ~part.ok THEN part
             ELSE VectorEncodeParts(c, v, i + 1,
                      parts \o <<encodeVarInt(FromInt(Len(part.bytes))).bytes, part.bytes>>)

\* A faulty Vector.encode that writes the element count before the elements.
VectorEncodeCounted(c, v) ==
    LET r == VectorEncodeParts(c, v, 1, <<>>)
    IN  IF ~r.ok THEN r
        ELSE Encoded(encodeVarInt(FromInt(Len(v.list))).bytes \o Concat(r.parts))

VectorEncode(c, v) ==
    IF c.codec.stride >= 0
    THEN VectorEncodeFixed(c, v, 1, [i \in 1..(Len(v.list) * c.codec.stride) |-> 0])
    ELSE LET r == VectorEncodeParts(c, v, 1, <<>>)
         IN  IF ~r.ok THEN r ELSE Encoded(Concat(r.parts))

RECURSIVE VectorDecodeFixedToEnd(_, _, _, _)
\* A faulty first loop that goes on while any byte is left.
VectorDecodeFixedToEnd(c, data, offset, result) ==
    IF offset < Len(data)
    THEN LET item == Decode(c.codec, subarray(data, FromInt(offset),
                                              FromInt(offset + c.codec.stride)))
         IN  IF ~item.ok THEN item
             ELSE IF c.codec.stride = 0 THEN NoReturn
             ELSE VectorDecodeFixedToEnd(c, data, offset + c.codec.stride,
                                         Append(result, item.val))
    ELSE Return(L(result))

RECURSIVE VectorDecodeFixed(_, _, _, _)
\* The first while loop of Vector.decode.  With a stride of 0 the offset
\* never moves and the condition never fails: the loop ends only if the
\* element's decode throws.
VectorDecodeFixed(c, data, offset, result) ==
    IF offset + c.codec.stride <= Len(data)
    THEN LET item == Decode(c.codec, SubSeq(data, offset + 1, offset + c.codec.stride))
         IN  IF ~item.ok THEN item
             ELSE IF c.codec.stride = 0 THEN NoReturn
             ELSE VectorDecodeFixed(c, data, offset + c.codec.stride,
                                    Append(result, item.val))
    ELSE Return(L(result))

RECURSIVE VectorDecodeVariable(_, _, _, _, _)
\* The second while loop of Vector.decode.  The offsets the loop has been at
\* are kept in seen: the loop's step depends on the offset alone, so a loop
\* that comes back to an offset never exits; neither does one that moves
\* down from a start at or below -length, where the prefix is read from the
\* whole buffer and the element's view is empty, at every later step too.
VectorDecodeVariable(c, data, offset, result, seen) ==
    IF NumLess(offset, FromInt(Len(data)))
    THEN LET prefix == decodeVarInt(subarrayFrom(data, offset))
         IN  IF ~prefix.ok THEN prefix
             ELSE LET start == NumAdd(offset, FromInt(prefix.bytesRead))
                      next  == NumAdd(start, prefix.value)
                      item  == Decode(c.codec, subarray(data, start, next))
                  IN  IF ~item.ok THEN item
                      ELSE IF next \in seen \cup {offset} THEN NoReturn
                      ELSE IF NumLeq(start, FromInt(-Len(data))) /\ NumLess(next, offset)
                      THEN NoReturn
                      ELSE VectorDecodeVariable(c, data, next, Append(result, item.val),
                                                seen \cup {offset})
    ELSE Return(L(result))

VectorDecode(c, data) ==
    IF c.codec.stride >= 0
    THEN VectorDecodeFixed(c, data, 0, <<>>)
    ELSE VectorDecodeVariable(c, data, Zero, <<>>, {})

\* A faulty Enum.decode that takes an index past the end modulo the count.
EnumDecodeWrapping(c, data) ==
    IF Len(data) = 0 THEN Throw("TypeError")
    ELSE LET key == c.keys[(data[1] % Len(c.keys)) + 1]
             v   == Decode(c.variants[Get(c.variants, key)].codec,
                           subarrayFrom(data, FromInt(1)))
         IN  IF ~v.ok THEN v ELSE Return([kind |-> key, value |-> v.val])

\* new Uint8Array([index, ...encodedValue]): the index is stored modulo 256.
EnumEncode(c, v) ==
    LET index == indexOf(c.keys, v.kind)
    IN  IF index = -1 THEN Throw("Error")
        ELSE LET encodedValue == Encode(c.variants[Get(c.variants, v.kind)].codec, v.value)
             IN  IF ~encodedValue.ok THEN encodedValue
                 ELSE Encoded(<<index % 256>> \o encodedValue.bytes)

\* On an empty array data[0] is undefined: undefined >= length is false,
\* keys[undefined] is undefined and the call of its codec's decode throws.
EnumDecode(c, data) ==
    IF Len(data) = 0 THEN Throw("TypeError")
    ELSE IF data[1] >= Len(c.keys) THEN Throw("Error")
    ELSE LET key == c.keys[data[1] + 1]
             v   == Decode(c.variants[Get(c.variants, key)].codec,
                           subarrayFrom(data, FromInt(1)))
         IN  IF ~v.ok THEN v ELSE Return([kind |-> key, value |-> v.val])

\* Array.from(value.entries()): the entries as [key, value] arrays, in order.
MapEntries(v) == L([i \in 1..Len(v.map) |-> L(<<v.map[i].key, v.map[i].value>>)])

MappingEncode(c, v) == Encode(c.entriesCodec, MapEntries(v))

\* SameValueZero on a key already in the map and a key just decoded: numbers,
\* strings, booleans and null are the same key when they are equal; an array,
\* object or Uint8Array that decode has just made is the same as no other.
SameKey(a, b) == a = b /\ DOMAIN a \in {{"num"}, {"str"}, {"bool"}, {"null"}}

RECURSIVE NewMap(_, _, _)
\* new Map(entries) from entry i on: set(key, value) replaces the value of a
\* key the map has, in its place, and appends a new key.
NewMap(entries, i, map) ==
    IF i > Len(entries) THEN M(map)
    ELSE LET key == entries[i].list[1]
             val == entries[i].list[2]
         IN  IF \E j \in 1..Len(map) : SameKey(map[j].key, key)
             THEN NewMap(entries, i + 1,
                         [j \in 1..Len(map) |->
                             IF SameKey(map[j].key, key)
                             THEN [key |-> map[j].key, value |-> val] ELSE map[j]])
             ELSE NewMap(entries, i + 1, Append(map, [key |-> key, value |-> val]))

MappingDecode(c, data) ==
    LET entries == Decode(c.entriesCodec, data)
    IN  IF ~entries.ok THEN entries ELSE Return(NewMap(entries.val.list, 1, <<>>))

Encode(c, v) ==
    CASE c.kind = "i8"     -> I8Encode(v)
      [] c.kind = "u8"     -> U8Encode(v)
      [] c.kind = "u16"    -> U16Encode(v)
      [] c.kind = "bool"   -> BoolEncode(v)
      [] c.kind = "str"    -> StrEncode(v)
      [] c.kind = "bytes"  -> BytesEncode(v)
      [] c.kind = "option" -> OptionEncode(c, v)
      [] c.kind = "tuple"  -> TupleEncode(c, v)
      [] c.kind = "struct" -> StructEncode(c, v)
      [] c.kind = "vector" -> VectorEncode(c, v)
      [] c.kind = "enum"   -> EnumEncode(c, v)
      [] c.kind = "mapping" -> MappingEncode(c, v)

Decode(c, data) ==
    CASE c.kind = "i8"     -> I8Decode(data)
      [] c.kind = "u8"     -> U8Decode(data)
      [] c.kind = "u16"    -> U16Decode(data)
      [] c.kind = "bool"   -> BoolDecode(data)
      [] c.kind = "str"    -> StrDecode(data)
      [] c.kind = "bytes"  -> BytesDecode(data)
      [] c.kind = "option" -> OptionDecode(c, data)
      [] c.kind = "tuple"  -> TupleDecode(c, data)
      [] c.kind = "struct" -> StructDecode(c, data)
      [] c.kind = "vector" -> VectorDecode(c, data)
      [] c.kind = "enum"   -> EnumDecode(c, data)
      [] c.kind = "mapping" -> MappingDecode(c, data)

(***************************************************************************)
(* The caller: the codecs it builds and the values it passes.              *)
(***************************************************************************)
\* Bounds of the model.
MaxListLen == 2

MaxBufLen == 3

MaxVariants == 257

LongLen == 200

\* A byte array long enough for a length prefix of two bytes.
LongBytes == [i \in 1..LongLen |-> i % 256]

\* Strings: "", "a", "bc", "hi" and one starting with U+FEFF.
StrValues == {<<>>, <<97>>, <<98, 99>>, <<104, 105>>, <<65279, 97>>}

\* Property names: "a", "b", "id", and the array indices "1", "2", "10".
FieldNames == {<<97>>, <<98>>, <<105, 100>>, <<49>>, <<50>>, <<49, 48>>}

\* The sequences over S of length at most n.
SeqsUpTo(elems, n) == UNION {[1..k -> elems] : k \in 0..n}

\* The name of the i-th variant of a large enum: "V" and three digits.
VariantName(i) == <<86, 48 + (i \div 100), 48 + ((i \div 10) % 10), 48 + (i % 10)>>

\* An enum of n variants V000, V001, ... declared in that order, all u8.
LargeEnum(n) == Enum([i \in 1..n |-> [name |-> VariantName(i - 1), codec |-> u8]])

\* { A: u8, B: str } and { B: u8, A: u8 }, and the three-variant enum of events.
EnumAB == Enum(<<[name |-> <<65>>, codec |-> u8], [name |-> <<66>>, codec |-> str]>>)

EnumBA == Enum(<<[name |-> <<66>>, codec |-> u8], [name |-> <<65>>, codec |-> u8]>>)

\* The enums over the names "A", "B", "10", "9" declared in every order of 2 or 3.
EnumPermutations ==
    LET names == {<<65>>, <<66>>, <<49, 48>>, <<57>>}
    IN  {Enum(<<[name |-> a, codec |-> u8], [name |-> b, codec |-> u16]>>) :
             <<a, b>> \in {p \in names \X names : p[1] # p[2]}}
        \cup
        {Enum(<<[name |-> p[1], codec |-> u8], [name |-> p[2], codec |-> bool],
                [name |-> p[3], codec |-> str]>>) :
             p \in {q \in names \X names \X names :
                        q[1] # q[2] /\ q[1] # q[3] /\ q[2] # q[3]}}

\* The structs of two fields (u8, u16) over every two distinct names, in both orders.
StructPairs ==
    {Struct(<<[name |-> p[1], codec |-> u8], [name |-> p[2], codec |-> u16]>>) :
         p \in {q \in FieldNames \X FieldNames : q[1] # q[2]}}

StructIdName == Struct(<<[name |-> <<105, 100>>, codec |-> u16], [name |-> <<97>>, codec |-> str]>>)

Tuples ==
    { Tuple(<<>>),
      Tuple(<<u8, str>>),
      Tuple(<<str, u8>>),
      Tuple(<<u8, u16>>),
      Tuple(<<u8, bool>>),
      Tuple(<<str, str, str>>),
      Tuple(<<u16, str, u8>>),
      Tuple(<<bytes, bool>>),
      Tuple(<<Tuple(<<u8, bool>>), Vector(u8), Option(u16)>>),
      Tuple(<<Tuple(<<i8, str>>), u8>>),
      Tuple(<<StructIdName, EnumAB>>),
      Tuple(<<Vector(str), Vector(Tuple(<<>>))>>),
      Tuple(<<Option(str), Tuple(<<>>), Vector(bool)>>),
      Tuple(<<Mapping(u8, u16), u8>>) }

Vectors ==
    { Vector(u8), Vector(u16), Vector(bool), Vector(str), Vector(bytes),
      Vector(Vector(bool)), Vector(Tuple(<<u8, u16>>)), Vector(Tuple(<<u8, str>>)),
      Vector(Tuple(<<>>)), Vector(Struct(<<>>)), Vector(Option(u8)), Vector(EnumAB),
      Vector(StructIdName) }

Options ==
    { Option(u8), Option(u16), Option(str), Option(bytes), Option(bool),
      Option(Option(u8)), Option(Vector(u8)), Option(Tuple(<<u8, str>>)),
      Option(EnumAB), Option(StructIdName) }

Enums == {EnumAB, EnumBA, LargeEnum(MaxVariants)} \cup EnumPermutations

Structs == {StructIdName, Struct(<<>>)} \cup StructPairs

Mappings ==
    { Mapping(str, u8), Mapping(u8, u16), Mapping(u8, str), Mapping(bytes, bool),
      Mapping(Option(u8), bool), Mapping(u8, StructIdName) }

Leaves == {i8, u8, u16, bool, str, bytes}

Codecs ==
    Leaves \cup Options \cup Tuples \cup Structs \cup Vectors \cup Enums \cup Mappings

RECURSIVE Values(_)
RECURSIVE TupleValues(_, _)
\* The lists of values of codecs[i..], one per codec.
TupleValues(codecs, i) ==
    IF i > Len(codecs) THEN {<<>>}
    ELSE {<<v>> \o rest : v \in Values(codecs[i]), rest \in TupleValues(codecs, i + 1)}

\* Values of the domain of a codec: a few per leaf, and every combination of
\* them in a composite (lists up to MaxListLen).
Values(c) ==
    CASE c.kind = "i8"     -> {N(-128), N(-5), N(127)}
      [] c.kind = "u8"     -> {N(0), N(7), N(255)}
      [] c.kind = "u16"    -> {N(1), N(513)}
      [] c.kind = "bool"   -> {B(TRUE), B(FALSE)}
      [] c.kind = "str"    -> {S(u) : u \in StrValues}
      [] c.kind = "bytes"  -> {U8A(<<>>), U8A(<<1, 2>>), U8A(<<1, 2, 3>>), U8A(<<0, 255, 128>>),
                               U8A(<<1, 2, 3, 4>>), U8A(LongBytes)}
      [] c.kind = "option" -> {Null} \cup Values(c.codec)
      [] c.kind = "tuple"  -> {L(t) : t \in TupleValues(c.codecs, 1)}
      [] c.kind = "struct" ->
            {O([k \in {c.keys[i] : i \in 1..Len(c.keys)} |-> t[indexOf(c.keys, k) + 1]]) :
                 t \in TupleValues(c.tuple.codecs, 1)}
      [] c.kind = "vector" -> {L(l) : l \in SeqsUpTo(Values(c.codec), MaxListLen)}
      [] c.kind = "enum"   ->
            UNION {{[kind |-> c.variants[i].name, value |-> v] :
                        v \in Values(c.variants[i].codec)} : i \in 1..Len(c.variants)}
      [] c.kind = "mapping" ->
            {M(m) : m \in
                {e \in SeqsUpTo([key : Values(c.entriesCodec.codec.codecs[1]),
                                  value : Values(c.entriesCodec.codec.codecs[2])],
                                 MaxListLen) :
                    \A i, j \in 1..Len(e) :
                        SameKey(e[i].key, e[j].key) => i = j}}

\* The numbers handed to encodeVarInt: non-negative safe integers around the
\* byte boundaries of the encoding and around 2^31, 2^32 and 2^53.
VarIntInputs ==
    {Num(hi, lo) : hi \in {0, 1, 7, 8, 15, 16, 17, 2^25 - 1},
                   lo \in {0, 1, 127, 128, 300, 16383, 16384, 2^21, 2^28 - 1}}

\* The other numbers handed to encodeVarInt: -1, -2^31, -(2^53 - 1), 2^53,
\* 2^53 + 2, 2^56, 0.5, 1.5, 300.5, -0.5, NaN, Infinity and -Infinity.
InvalidVarIntInputs ==
    { FromInt(-1), Num(-8, 0), Num(-(2^25), 1), Num(2^25, 0), Num(2^25, 2), Num(2^28, 0),
      Half(0, 0), Half(0, 1), Half(0, 300), Half(-1, 2^28 - 1),
      NaN, Infinity(1), Infinity(-1) }

\* The buffers handed to decode as they are (not made by encode).
Buffers == SeqsUpTo({0, 1, 2, 128, 255}, MaxBufLen)

MaxVarIntBytes == 9

\* The buffers handed to decodeVarInt besides: runs of continuation bytes
\* (0x80 or 0xFF) of up to MaxVarIntBytes bytes, alone (no terminating byte)
\* or followed by a terminating byte.
VarIntBuffers ==
    LET runs == {[i \in 1..k |-> b] : k \in 0..MaxVarIntBytes, b \in {128, 255}}
    IN  runs \cup {r \o <<t>> : r \in runs, t \in {0, 1, 8, 15, 16, 64, 127}}

\* Tags handed to Enum.encode that may not be registered: "C", "a", "" and
\* "toString".
OtherTags == {<<67>>, <<97>>, <<>>, <<116, 111, 83, 116, 114, 105, 110, 103>>}

\* Enum values whose tag is not a variant of the enum.
UnregisteredValues(c) ==
    IF c.kind # "enum" THEN {}
    ELSE {[kind |-> t, value |-> N(7)] :
              t \in OtherTags \ {c.variants[i].name : i \in 1..Len(c.variants)}}

Init ==
    /\ decoded = None
    /\ \/ /\ pc = "init"
          /\ codec = VarIntFns
          /\ value \in VarIntInputs \cup InvalidVarIntInputs
          /\ encoded = None
       \/ /\ pc = "init"
          /\ codec \in Codecs
          /\ value \in Values(codec) \cup UnregisteredValues(codec)
          /\ encoded = None
       \/ /\ pc = "buffer"
          /\ codec \in Codecs \cup {VarIntFns}
          /\ value = None
          /\ encoded \in {Encoded(b) : b \in Buffers \cup
                                 (IF codec = VarIntFns THEN VarIntBuffers ELSE {})}

\* The caller calls encodeVarInt(value).
encodeVarIntCall ==
    /\ pc = "init"
    /\ codec.kind = "varint"
    /\ encoded' = encodeVarInt(value)
    /\ pc' = "encoded"
    /\ UNCHANGED <<codec, value, decoded>>

\* The caller calls decodeVarInt on the bytes it has.
decodeVarIntCall ==
    /\ pc \in {"encoded", "buffer"}
    /\ codec.kind = "varint"
    /\ encoded.ok
    /\ decoded' = decodeVarInt(encoded.bytes)
    /\ pc' = "decoded"
    /\ UNCHANGED <<codec, value, encoded>>

\* The caller calls i8.encode(value).
I8EncodeCall ==
    /\ pc = "init"
    /\ codec.kind = "i8"
    /\ encoded' = Encode(codec, value)
    /\ pc' = "encoded"
    /\ UNCHANGED <<codec, value, decoded>>

\* The caller calls i8.decode on the bytes it has.
I8DecodeCall ==
    /\ pc \in {"encoded", "buffer"}
    /\ codec.kind = "i8"
    /\ encoded.ok
    /\ decoded' = Decode(codec, encoded.bytes)
    /\ pc' = "decoded"
    /\ UNCHANGED <<codec, value, encoded>>

\* The caller calls u8.encode(value).
U8EncodeCall ==
    /\ pc = "init"
    /\ codec.kind = "u8"
    /\ encoded' = Encode(codec, value)
    /\ pc' = "encoded"
    /\ UNCHANGED <<codec, value, decoded>>

\* The caller calls u8.decode on the bytes it has.
U8DecodeCall ==
    /\ pc \in {"encoded", "buffer"}
    /\ codec.kind = "u8"
    /\ encoded.ok
    /\ decoded' = Decode(codec, encoded.bytes)
    /\ pc' = "decoded"
    /\ UNCHANGED <<codec, value, encoded>>

\* The caller calls u16.encode(value).
U16EncodeCall ==
    /\ pc = "init"
    /\ codec.kind = "u16"
    /\ encoded' = Encode(codec, value)
    /\ pc' = "encoded"
    /\ UNCHANGED <<codec, value, decoded>>

\* The caller calls u16.decode on the bytes it has.
U16DecodeCall ==
    /\ pc \in {"encoded", "buffer"}
    /\ codec.kind = "u16"
    /\ encoded.ok
    /\ decoded' = Decode(codec, encoded.bytes)
    /\ pc' = "decoded"
    /\ UNCHANGED <<codec, value, encoded>>

\* The caller calls bool.encode(value).
BoolEncodeCall ==
    /\ pc = "init"
    /\ codec.kind = "bool"
    /\ encoded' = Encode(codec, value)
    /\ pc' = "encoded"
    /\ UNCHANGED <<codec, value, decoded>>

\* The caller calls bool.decode on the bytes it has.
BoolDecodeCall ==
    /\ pc \in {"encoded", "buffer"}
    /\ codec.kind = "bool"
    /\ encoded.ok
    /\ decoded' = Decode(codec, encoded.bytes)
    /\ pc' = "decoded"
    /\ UNCHANGED <<codec, value, encoded>>

\* The caller calls str.encode(value).
StrEncodeCall ==
    /\ pc = "init"
    /\ codec.kind = "str"
    /\ encoded' = Encode(codec, value)
    /\ pc' = "encoded"
    /\ UNCHANGED <<codec, value, decoded>>

\* The caller calls str.decode on the bytes it has.
StrDecodeCall ==
    /\ pc \in {"encoded", "buffer"}
    /\ codec.kind = "str"
    /\ encoded.ok
    /\ decoded' = Decode(codec, encoded.bytes)
    /\ pc' = "decoded"
    /\ UNCHANGED <<codec, value, encoded>>

\* The caller calls bytes.encode(value).
BytesEncodeCall ==
    /\ pc = "init"
    /\ codec.kind = "bytes"
    /\ encoded' = Encode(codec, value)
    /\ pc' = "encoded"
    /\ UNCHANGED <<codec, value, decoded>>

\* The caller calls bytes.decode on the bytes it has.
BytesDecodeCall ==
    /\ pc \in {"encoded", "buffer"}
    /\ codec.kind = "bytes"
    /\ encoded.ok
    /\ decoded' = Decode(codec, encoded.bytes)
    /\ pc' = "decoded"
    /\ UNCHANGED <<codec, value, encoded>>

\* The caller calls encode(value) of an Option.
OptionEncodeCall ==
    /\ pc = "init"
    /\ codec.kind = "option"
    /\ encoded' = Encode(codec, value)
    /\ pc' = "encoded"
    /\ UNCHANGED <<codec, value, decoded>>

\* The caller calls decode of an Option on the bytes it has.
OptionDecodeCall ==
    /\ pc \in {"encoded", "buffer"}
    /\ codec.kind = "option"
    /\ encoded.ok
    /\ decoded' = Decode(codec, encoded.bytes)
    /\ pc' = "decoded"
    /\ UNCHANGED <<codec, value, encoded>>

\* The caller calls encode(value) of a Tuple.
TupleEncodeCall ==
    /\ pc = "init"
    /\ codec.kind = "tuple"
    /\ encoded' = Encode(codec, value)
    /\ pc' = "encoded"
    /\ UNCHANGED <<codec, value, decoded>>

\* The caller calls decode of a Tuple on the bytes it has.
TupleDecodeCall ==
    /\ pc \in {"encoded", "buffer"}
    /\ codec.kind = "tuple"
    /\ encoded.ok
    /\ decoded' = Decode(codec, encoded.bytes)
    /\ pc' = "decoded"
    /\ UNCHANGED <<codec, value, encoded>>

\* The caller calls encode(value) of a Struct.
StructEncodeCall ==
    /\ pc = "init"
    /\ codec.kind = "struct"
    /\ encoded' = Encode(codec, value)
    /\ pc' = "encoded"
    /\ UNCHANGED <<codec, value, decoded>>

\* The caller calls decode of a Struct on the bytes it has.
StructDecodeCall ==
    /\ pc \in {"encoded", "buffer"}
    /\ codec.kind = "struct"
    /\ encoded.ok
    /\ decoded' = Decode(codec, encoded.bytes)
    /\ pc' = "decoded"
    /\ UNCHANGED <<codec, value, encoded>>

\* The caller calls encode(value) of a Vector.
VectorEncodeCall ==
    /\ pc = "init"
    /\ codec.kind = "vector"
    /\ encoded' = Encode(codec, value)
    /\ pc' = "encoded"
    /\ UNCHANGED <<codec, value, decoded>>

\* The caller calls decode of a Vector on the bytes it has.
VectorDecodeCall ==
    /\ pc \in {"encoded", "buffer"}
    /\ codec.kind = "vector"
    /\ encoded.ok
    /\ decoded' = Decode(codec, encoded.bytes)
    /\ pc' = "decoded"
    /\ UNCHANGED <<codec, value, encoded>>

\* The caller calls encode(value) of an Enum.
EnumEncodeCall ==
    /\ pc = "init"
    /\ codec.kind = "enum"
    /\ encoded' = Encode(codec, value)
    /\ pc' = "encoded"
    /\ UNCHANGED <<codec, value, decoded>>

\* The caller calls decode of an Enum on the bytes it has.
EnumDecodeCall ==
    /\ pc \in {"encoded", "buffer"}
    /\ codec.kind = "enum"
    /\ encoded.ok
    /\ decoded' = Decode(codec, encoded.bytes)
    /\ pc' = "decoded"
    /\ UNCHANGED <<codec, value, encoded>>

\* The caller calls encode(value) of a Mapping.
MappingEncodeCall ==
    /\ pc = "init"
    /\ codec.kind = "mapping"
    /\ encoded' = Encode(codec, value)
    /\ pc' = "encoded"
    /\ UNCHANGED <<codec, value, decoded>>

\* The caller calls decode of a Mapping on the bytes it has.
MappingDecodeCall ==
    /\ pc \in {"encoded", "buffer"}
    /\ codec.kind = "mapping"
    /\ encoded.ok
    /\ decoded' = Decode(codec, encoded.bytes)
    /\ pc' = "decoded"
    /\ UNCHANGED <<codec, value, encoded>>

Next ==
    \/ encodeVarIntCall
    \/ decodeVarIntCall
    \/ I8EncodeCall
    \/ I8DecodeCall
    \/ U8EncodeCall
    \/ U8DecodeCall
    \/ U16EncodeCall
    \/ U16DecodeCall
    \/ BoolEncodeCall
    \/ BoolDecodeCall
    \/ StrEncodeCall
    \/ StrDecodeCall
    \/ BytesEncodeCall
    \/ BytesDecodeCall
    \/ OptionEncodeCall
    \/ OptionDecodeCall
    \/ TupleEncodeCall
    \/ TupleDecodeCall
    \/ StructEncodeCall
    \/ StructDecodeCall
    \/ VectorEncodeCall
    \/ VectorDecodeCall
    \/ EnumEncodeCall
    \/ EnumDecodeCall
    \/ MappingEncodeCall
    \/ MappingDecodeCall

Spec == Init /\ [][Next]_vars

(***************************************************************************)
(* Several callers of one codec graph.  In the specification ConcSpec the  *)
(* variables hold one entry per caller: codec is the shared codec, value   *)
(* the call each caller makes ([op, arg]), encoded the local variables of  *)
(* its call, decoded its outcome, pc where it is.  The loops of Tuple and   *)
(* of Vector.decode advance one iteration at a time, so that calls         *)
(* interleave inside them.                                                 *)
(***************************************************************************)
NumCallers == 2

\* The elements of `result` that are kept.  A loop that never ends pushes
\* elements without end; past this many the list is left as it is.
MaxKept == 6

Callers == 1..NumCallers

\* The codec graphs the callers share.
ConcCodecs ==
    {Tuple(<<u8, str>>), Tuple(<<str, u16, bytes>>), Tuple(<<EnumAB, u8>>), EnumBA,
     Vector(u16), Vector(Tuple(<<>>)), Vector(bytes)}

\* The buffers the callers pass to Vector.decode: whole and cut elements,
\* prefixes that announce more bytes than follow, a prefix without its last
\* byte, and the five-byte prefixes of 2^32 - 5 and of 2^32 - 1.
VectorBuffers(c) ==
    IF c.codec.stride > 0 THEN {<<>>, <<1, 2, 128>>, <<1, 2, 3, 4>>}
    ELSE IF c.codec.stride = 0 THEN {<<>>, <<1>>}
    ELSE {<<>>, <<1, 97, 2, 98, 99>>, <<1, 97, 1, 98>>, <<0, 0>>, <<2, 97>>, <<128>>,
          <<251, 255, 255, 255, 15>>, <<255, 255, 255, 255, 15>>}

\* The values the callers encode with a shared codec.
ConcValues(c) ==
    IF c = Tuple(<<u8, str>>)
    THEN {L(<<N(7), S(<<104, 105>>)>>), L(<<N(0), S(<<>>)>>)}
    ELSE IF c = Tuple(<<str, u16, bytes>>)
    THEN {L(<<S(<<97>>), N(513), U8A(<<1, 2, 3>>)>>), L(<<S(<<98, 99>>), N(1), U8A(<<>>)>>)}
    ELSE IF c = Tuple(<<EnumAB, u8>>)
    THEN {L(<<[kind |-> <<65>>, value |-> N(7)], N(0)>>),
          L(<<[kind |-> <<66>>, value |-> S(<<104, 105>>)], N(255)>>)}
    ELSE {[kind |-> <<65>>, value |-> N(7)], [kind |-> <<66>>, value |-> N(0)],
          [kind |-> <<67>>, value |-> N(0)]}

\* The calls a caller may make: encode of a value, decode of an encoding, of
\* an encoding cut short by one byte, or of a buffer of its own.
ConcCalls(c) ==
    IF c.kind = "vector" THEN {[op |-> "decode", arg |-> U8A(b)] : b \in VectorBuffers(c)}
    ELSE
    LET good == {Encode(c, v).bytes : v \in {w \in ConcValues(c) : Encode(c, w).ok}}
    IN  {[op |-> "encode", arg |-> v] : v \in ConcValues(c)}
        \cup {[op |-> "decode", arg |-> U8A(b)] :
                  b \in good \cup {SubSeq(g, 1, Len(g) - 1) : g \in good} \cup {<<2, 128>>}}

\* The local variables of a call of Tuple.encode or Tuple.decode as it starts.
NewLocals == [i |-> 0, parts |-> <<>>, offset |-> Zero, result |-> <<>>]

\* A faulty place for the loop variables: on the codec object, where every
\* caller finds those of the first.
LocalsOnCodec(self) == encoded[1]

\* The local variables (i, parts, offset, result) of a caller's call.
Locals(self) == encoded[self]

ConcInit ==
    /\ codec \in ConcCodecs
    /\ value \in [Callers -> ConcCalls(codec)]
    /\ pc = [self \in Callers |-> value[self].op]
    /\ encoded = [self \in Callers |-> NewLocals]
    /\ decoded = [self \in Callers |-> None]

\* A call ends: its outcome is returned (or thrown) to its caller.
Finish(self, outcome) ==
    /\ decoded' = [decoded EXCEPT ![self] = outcome]
    /\ pc' = [pc EXCEPT ![self] = "done"]
    /\ UNCHANGED <<codec, value, encoded>>

\* A loop iteration ends: only the call's local variables change.
Continue(self, locals) ==
    /\ encoded' = [encoded EXCEPT ![self] = locals]
    /\ UNCHANGED <<codec, value, pc, decoded>>

\* One iteration of the first loop of Tuple.encode.
TupleEncodeStep(self) ==
    /\ pc[self] = "encode"
    /\ codec.kind = "tuple"
    /\ Locals(self).i < Len(codec.codecs)
    /\ LET l    == Locals(self)
           c    == codec.codecs[l.i + 1]
           part == Encode(c, value[self].arg.list[l.i + 1])
       IN  IF ~part.ok THEN Finish(self, part)
           ELSE Continue(self,
                    [l EXCEPT !.i = l.i + 1,
                              !.parts = IF c.stride < 0
                                        THEN l.parts \o <<encodeVarInt(FromInt(Len(part.bytes))).bytes,
                                                          part.bytes>>
                                        ELSE Append(l.parts, part.bytes)])

\* The rest of Tuple.encode: the parts are copied into `combined`.
TupleEncodeCombine(self) ==
    /\ pc[self] = "encode"
    /\ codec.kind = "tuple"
    /\ Locals(self).i >= Len(codec.codecs)
    /\ Finish(self, Encoded(Concat(Locals(self).parts)))

\* One iteration of the loop of Tuple.decode.
TupleDecodeStep(self) ==
    /\ pc[self] = "decode"
    /\ codec.kind = "tuple"
    /\ Locals(self).i < Len(codec.codecs)
    /\ LET l      == Locals(self)
           data   == value[self].arg.u8a
           c      == codec.codecs[l.i + 1]
           prefix == decodeVarInt(subarrayFrom(data, l.offset))
       IN  IF c.stride < 0 /\ ~prefix.ok THEN Finish(self, prefix)
           ELSE LET length == IF c.stride >= 0 THEN FromInt(c.stride) ELSE prefix.value
                    start  == IF c.stride >= 0 THEN l.offset
                              ELSE NumAdd(l.offset, FromInt(prefix.bytesRead))
                    item   == Decode(c, subarray(data, start, NumAdd(start, length)))
                IN  IF ~item.ok THEN Finish(self, item)
                    ELSE Continue(self, [l EXCEPT !.i = l.i + 1,
                                                  !.offset = NumAdd(start, length),
                                                  !.result = Append(l.result, item.val)])

\* Tuple.decode returns its result.
TupleDecodeReturn(self) ==
    /\ pc[self] = "decode"
    /\ codec.kind = "tuple"
    /\ Locals(self).i >= Len(codec.codecs)
    /\ Finish(self, Return(L(Locals(self).result)))

\* result.push(item), as far as the list is kept.  In the loops of
\* Vector.decode, which have no index, i is the number of iterations modulo 2.
Push(result, item) == IF Len(result) < MaxKept THEN Append(result, item) ELSE result

\* One iteration of the first while loop of Vector.decode.
VectorDecodeFixedStep(self) ==
    /\ pc[self] = "decode"
    /\ codec.kind = "vector"
    /\ codec.codec.stride >= 0
    /\ NumLeq(NumAdd(Locals(self).offset, FromInt(codec.codec.stride)),
              FromInt(Len(value[self].arg.u8a)))
    /\ LET l    == Locals(self)
           next == NumAdd(l.offset, FromInt(codec.codec.stride))
           item == Decode(codec.codec, subarray(value[self].arg.u8a, l.offset, next))
       IN  IF ~item.ok THEN Finish(self, item)
           ELSE Continue(self, [l EXCEPT !.i = 1 - l.i, !.offset = next,
                                         !.result = Push(l.result, item.val)])

\* One iteration of the second while loop of Vector.decode.
VectorDecodeVariableStep(self) ==
    /\ pc[self] = "decode"
    /\ codec.kind = "vector"
    /\ codec.codec.stride < 0
    /\ NumLess(Locals(self).offset, FromInt(Len(value[self].arg.u8a)))
    /\ LET l      == Locals(self)
           data   == value[self].arg.u8a
           prefix == decodeVarInt(subarrayFrom(data, l.offset))
       IN  IF ~prefix.ok THEN Finish(self, prefix)
           ELSE LET start == NumAdd(l.offset, FromInt(prefix.bytesRead))
                    next  == NumAdd(start, prefix.value)
                    item  == Decode(codec.codec, subarray(data, start, next))
                IN  IF ~item.ok THEN Finish(self, item)
                    ELSE Continue(self, [l EXCEPT !.i = 1 - l.i, !.offset = next,
                                                  !.result = Push(l.result, item.val)])

\* The condition of the while loop fails: Vector.decode returns its result.
VectorDecodeReturn(self) ==
    /\ pc[self] = "decode"
    /\ codec.kind = "vector"
    /\ IF codec.codec.stride >= 0
       THEN ~NumLeq(NumAdd(Locals(self).offset, FromInt(codec.codec.stride)),
                    FromInt(Len(value[self].arg.u8a)))
       ELSE ~NumLess(Locals(self).offset, FromInt(Len(value[self].arg.u8a)))
    /\ Finish(self, Return(L(Locals(self).result)))

\* Enum.encode and Enum.decode have no loop: a call is one step.
EnumEncodeBy(self) ==
    /\ pc[self] = "encode"
    /\ codec.kind = "enum"
    /\ Finish(self, Encode(codec, value[self].arg))

EnumDecodeBy(self) ==
    /\ pc[self] = "decode"
    /\ codec.kind = "enum"
    /\ Finish(self, Decode(codec, value[self].arg.u8a))

\* The steps of one caller's call.
CallSteps(self) ==
    \/ TupleEncodeStep(self)
    \/ TupleEncodeCombine(self)
    \/ TupleDecodeStep(self)
    \/ TupleDecodeReturn(self)
    \/ VectorDecodeFixedStep(self)
    \/ VectorDecodeVariableStep(self)
    \/ VectorDecodeReturn(self)
    \/ EnumEncodeBy(self)
    \/ EnumDecodeBy(self)

ConcNext == \E self \in Callers : CallSteps(self)

ConcSpec == ConcInit /\ [][ConcNext]_vars

\* The calls of Vector.decode alone, on the buffers whose length prefixes are
\* of one byte, and with the fairness of synchronous code: a call that has a
\* next step takes it.
VecInit ==
    /\ ConcInit
    /\ codec.kind = "vector"
    /\ \A self \in Callers : Len(value[self].arg.u8a) < 5

VecSteps(self) ==
    \/ VectorDecodeFixedStep(self)
    \/ VectorDecodeVariableStep(self)
    \/ VectorDecodeReturn(self)

VecNext == \E self \in Callers : VecSteps(self)

VecSpec == VecInit /\ [][VecNext]_vars /\ \A self \in Callers : WF_vars(VecSteps(self))

(***************************************************************************)
(* Storage.  A Uint8Array is a view [buf, from, len] of a buffer: len      *)
(* bytes of buffer buf from byte offset from.  In the specification        *)
(* AliasSpec the variable encoded holds the buffers (a sequence of byte    *)
(* sequences), value the call ([op, arg], the Uint8Arrays in arg being     *)
(* views), decoded what the call returned, with views for its Uint8Arrays. *)
(* After the call the caller writes one byte through a Uint8Array of the   *)
(* argument or of the result.                                              *)
(***************************************************************************)
View(buf, from, len) == [view |-> [buf |-> buf, from |-> from, len |-> len]]

\* The bytes a Uint8Array shows.
ViewBytes(heap, w) == SubSeq(heap[w.buf], w.from + 1, w.from + w.len)

\* w.subarray(begin, end): a new Uint8Array on the same buffer.
subarrayView(w, begin, end) ==
    LET from  == RelativeIndex(begin, w.len)
        final == RelativeIndex(end, w.len)
    IN  [buf |-> w.buf, from |-> w.from + from,
         len |-> IF final <= from THEN 0 ELSE final - from]

RECURSIVE Deref(_, _)
\* A value as it reads now: every Uint8Array in it with the bytes it shows.
Deref(heap, v) ==
    IF DOMAIN v = {"view"} THEN U8A(ViewBytes(heap, v.view))
    ELSE IF DOMAIN v = {"list"} THEN L([i \in 1..Len(v.list) |-> Deref(heap, v.list[i])])
    ELSE IF DOMAIN v = {"obj"} THEN O([k \in DOMAIN v.obj |-> Deref(heap, v.obj[k])])
    ELSE IF DOMAIN v = {"map"}
    THEN M([i \in 1..Len(v.map) |-> [key |-> Deref(heap, v.map[i].key),
                                     value |-> Deref(heap, v.map[i].value)]])
    ELSE IF DOMAIN v = {"kind", "value"}
    THEN [kind |-> v.kind, value |-> Deref(heap, v.value)]
    ELSE v

RECURSIVE ViewsIn(_)
\* The Uint8Arrays a value holds.
ViewsIn(v) ==
    IF DOMAIN v = {"view"} THEN {v.view}
    ELSE IF DOMAIN v = {"list"} THEN UNION {ViewsIn(v.list[i]) : i \in 1..Len(v.list)}
    ELSE IF DOMAIN v = {"obj"} THEN UNION {ViewsIn(v.obj[k]) : k \in DOMAIN v.obj}
    ELSE IF DOMAIN v = {"map"}
    THEN UNION {ViewsIn(v.map[i].key) \cup ViewsIn(v.map[i].value) : i \in 1..Len(v.map)}
    ELSE IF DOMAIN v = {"kind", "value"} THEN ViewsIn(v.value)
    ELSE {}

RECURSIVE CarriesBytes(_)
\* The codec is bytes or has bytes below it.  The other codecs return
\* numbers, booleans, strings and containers of them: new values.
CarriesBytes(c) ==
    CASE c.kind = "bytes"   -> TRUE
      [] c.kind \in {"option", "vector"} -> CarriesBytes(c.codec)
      [] c.kind = "tuple"   -> \E i \in 1..Len(c.codecs) : CarriesBytes(c.codecs[i])
      [] c.kind = "struct"  -> CarriesBytes(c.tuple)
      [] c.kind = "enum"    -> \E i \in 1..Len(c.variants) : CarriesBytes(c.variants[i].codec)
      [] c.kind = "mapping" -> CarriesBytes(c.entriesCodec)
      [] OTHER              -> FALSE

\* A faulty Bytes.encode that returns a copy (value.slice()).
BytesEncodeSlice(heap, v) ==
    [ok |-> TRUE, val |-> View(Len(heap) + 1, 0, v.view.len),
     alloc |-> <<ViewBytes(heap, v.view)>>]

\* Bytes.encode: return value, the Uint8Array it was given.
BytesEncodeV(heap, v) == [ok |-> TRUE, val |-> v, alloc |-> <<>>]

\* c.encode(v) with the buffers it allocates.  Every class but Bytes copies
\* the bytes of its parts into a Uint8Array it has just made.
EncodeV(c, heap, v) ==
    IF c.kind = "bytes" THEN BytesEncodeV(heap, v)
    ELSE LET r == Encode(c, Deref(heap, v))
         IN  IF ~r.ok THEN [ok |-> FALSE, err |-> r.err, alloc |-> <<>>]
             ELSE [ok |-> TRUE, val |-> View(Len(heap) + 1, 0, Len(r.bytes)),
                   alloc |-> <<r.bytes>>]

RECURSIVE DecodeView(_, _, _)
RECURSIVE TupleDecodeViews(_, _, _, _, _, _)
\* The loop of Tuple.decode, each part a subarray of data.
TupleDecodeViews(codecs, heap, w, i, offset, result) ==
    IF i > Len(codecs) THEN L(result)
    ELSE LET fixed  == codecs[i].stride >= 0
             prefix == decodeVarInt(subarrayFrom(ViewBytes(heap, w), offset))
             length == IF fixed THEN FromInt(codecs[i].stride) ELSE prefix.value
             start  == IF fixed THEN offset ELSE NumAdd(offset, FromInt(prefix.bytesRead))
             part   == subarrayView(w, start, NumAdd(start, length))
         IN  TupleDecodeViews(codecs, heap, w, i + 1, NumAdd(start, length),
                              Append(result, DecodeView(codecs[i], heap, part)))

RECURSIVE VectorDecodeViews(_, _, _, _, _)
\* The second while loop of Vector.decode, each part a subarray of data.
VectorDecodeViews(c, heap, w, offset, result) ==
    IF NumLess(offset, FromInt(w.len))
    THEN LET prefix == decodeVarInt(subarrayFrom(ViewBytes(heap, w), offset))
             start  == NumAdd(offset, FromInt(prefix.bytesRead))
             next   == NumAdd(start, prefix.value)
         IN  VectorDecodeViews(c, heap, w, next,
                 Append(result, DecodeView(c.codec, heap, subarrayView(w, start, next))))
    ELSE L(result)

\* What c.decode(data) returns when it returns, data being the view w.
DecodeView(c, heap, w) ==
    IF ~CarriesBytes(c) THEN Decode(c, ViewBytes(heap, w)).val
    ELSE CASE c.kind = "bytes"   -> [view |-> w]
           [] c.kind = "option"  ->
                  IF w.len >= 1 /\ ViewBytes(heap, w)[1] = 0 THEN Null
                  ELSE DecodeView(c.codec, heap, subarrayView(w, FromInt(1), FromInt(w.len)))
           [] c.kind = "tuple"   -> TupleDecodeViews(c.codecs, heap, w, 1, Zero, <<>>)
           [] c.kind = "struct"  ->
                  LET tupleValue == TupleDecodeViews(c.tuple.codecs, heap, w, 1, Zero, <<>>)
                  IN  O([k \in {c.keys[i] : i \in 1..Len(c.keys)} |->
                            tupleValue.list[indexOf(c.keys, k) + 1]])
           [] c.kind = "vector"  -> VectorDecodeViews(c, heap, w, Zero, <<>>)
           [] c.kind = "enum"    ->
                  LET key == c.keys[ViewBytes(heap, w)[1] + 1]
                  IN  [kind |-> key,
                       value |-> DecodeView(c.variants[Get(c.variants, key)].codec, heap,
                                            subarrayView(w, FromInt(1), FromInt(w.len)))]
           [] c.kind = "mapping" -> NewMap(DecodeView(c.entriesCodec, heap, w).list, 1, <<>>)

\* c.decode(data): it throws or never returns as Decode says, and returns
\* the value whose Uint8Arrays are the subarrays the classes took.
DecodeV(c, heap, w) ==
    LET r == Decode(c, ViewBytes(heap, w))
    IN  IF ~r.ok THEN r ELSE Return(DecodeView(c, heap, w))

StructIdData == Struct(<<[name |-> <<105, 100>>, codec |-> u8], [name |-> <<100>>, codec |-> bytes]>>)

EnumNumRaw == Enum(<<[name |-> <<78>>, codec |-> u8], [name |-> <<82>>, codec |-> bytes]>>)

\* The codecs that carry raw bytes: bytes alone and below each composite.
AliasCodecs ==
    {bytes, Option(bytes), Tuple(<<u8, bytes>>), Tuple(<<bytes, str, bytes>>), StructIdData,
     Vector(bytes), EnumNumRaw, Mapping(u8, bytes), Vector(Tuple(<<u8, Option(bytes)>>))}

\* A value of the codec holding the Uint8Array b.
AliasValue(c, b) ==
    CASE c = bytes                  -> b
      [] c = Option(bytes)          -> b
      [] c = Tuple(<<u8, bytes>>)   -> L(<<N(7), b>>)
      [] c = Tuple(<<bytes, str, bytes>>) -> L(<<b, S(<<104, 105>>), b>>)
      [] c = StructIdData           -> O([k \in {<<105, 100>>, <<100>>} |->
                                             IF k = <<100>> THEN b ELSE N(9)])
      [] c = Vector(bytes)          -> L(<<b, b>>)
      [] c = EnumNumRaw             -> [kind |-> <<82>>, value |-> b]
      [] c = Mapping(u8, bytes)     -> M(<<[key |-> N(1), value |-> b]>>)
      [] c = Vector(Tuple(<<u8, Option(bytes)>>)) -> L(<<L(<<N(3), b>>), L(<<N(4), Null>>)>>)

\* The contents of the buffers the caller holds.
AliasContents == {<<>>, <<5>>, <<1, 2>>, <<0, 255, 128>>}

\* The caller's buffer and call: encode of a value whose Uint8Array is the
\* whole buffer or a subarray of it, or decode of an encoding, of one cut
\* short, or of the caller's bytes as they are.
AliasCalls(c) ==
    {[heap |-> <<b>>, op |-> "encode", arg |-> AliasValue(c, View(1, from, Len(b) - from))] :
         <<b, from>> \in {p \in AliasContents \X {0, 1} : p[2] <= Len(p[1])}}
    \cup
    {[heap |-> <<d>>, op |-> "decode", arg |-> View(1, 0, Len(d))] :
         d \in LET good == {Encode(c, AliasValue(c, U8A(b))).bytes : b \in AliasContents}
               IN  good \cup {SubSeq(g, 1, Len(g) - 1) : g \in good} \cup AliasContents}

AliasInit ==
    /\ codec \in AliasCodecs
    /\ \E call \in AliasCalls(codec) :
           /\ value = [op |-> call.op, arg |-> call.arg]
           /\ encoded = call.heap
           /\ pc = call.op
    /\ decoded = None

\* c.encode(value): the buffers it made are new ones.
EncodeCallV ==
    /\ pc = "encode"
    /\ LET r == EncodeV(codec, encoded, value.arg)
       IN  /\ decoded' = (IF r.ok THEN Return(r.val) ELSE Throw(r.err))
           /\ encoded' = encoded \o r.alloc
    /\ pc' = "returned"
    /\ UNCHANGED <<codec, value>>

\* c.decode(data): no buffer is made or written.
DecodeCallV ==
    /\ pc = "decode"
    /\ decoded' = DecodeV(codec, encoded, value.arg.view)
    /\ pc' = "returned"
    /\ UNCHANGED <<codec, value, encoded>>

\* array[k] = array[k] + 1 on the Uint8Array w.
WriteAt(heap, w, k) ==
    [heap EXCEPT ![w.buf][w.from + k + 1] = (heap[w.buf][w.from + k + 1] + 1) % 256]

\* After the call the caller writes to a Uint8Array it passed in.
WriteArgument ==
    /\ pc = "returned"
    /\ decoded.ok
    /\ \E w \in ViewsIn(value.arg) : \E k \in 0..(w.len - 1) :
           encoded' = WriteAt(encoded, w, k)
    /\ pc' = "wroteArgument"
    /\ UNCHANGED <<codec, value, decoded>>

\* After the call the caller writes to a Uint8Array it was returned.
WriteResult ==
    /\ pc = "returned"
    /\ decoded.ok
    /\ \E w \in ViewsIn(decoded.val) : \E k \in 0..(w.len - 1) :
           encoded' = WriteAt(encoded, w, k)
    /\ pc' = "wroteResult"
    /\ UNCHANGED <<codec, value, decoded>>

AliasNext == EncodeCallV \/ DecodeCallV \/ WriteArgument \/ WriteResult

AliasSpec == AliasInit /\ [][AliasNext]_vars

(***************************************************************************)
(* Reference definitions the properties are stated against.                *)
(***************************************************************************)
\* Bits 7i..7i+6 of n: four 7-bit groups in the low limb, the rest above.
Leb128Digit(n, i) ==
    IF i < 4 THEN (n.lo \div (128 ^ i)) % 128 ELSE (n.hi \div (128 ^ (i - 4))) % 128

\* The number of 7-bit groups up to the highest non-zero one (1 for zero).
Leb128Len(n) ==
    IF n.hi = 0
    THEN CHOOSE k \in 1..4 : (k = 4 \/ n.lo < 128 ^ k) /\ (k = 1 \/ n.lo >= 128 ^ (k - 1))
    ELSE 4 + (CHOOSE k \in 1..4 : (k = 4 \/ n.hi < 128 ^ k) /\ (k = 1 \/ n.hi >= 128 ^ (k - 1)))

\* Unsigned LEB128 of n: every byte but the last has the high bit set.
Leb128(n) ==
    [i \in 1..Leb128Len(n) |->
        Leb128Digit(n, i - 1) + (IF i < Leb128Len(n) THEN 128 ELSE 0)]

\* One child's part of a tuple: its encoding, prefixed when variable-stride.
TuplePart(c, x) ==
    IF c.stride >= 0 THEN Encode(c, x).bytes
    ELSE Leb128(FromInt(Len(Encode(c, x).bytes))) \o Encode(c, x).bytes

RECURSIVE TupleLayout(_, _, _)
\* The parts of the children i.. of a tuple, end to end.
TupleLayout(codecs, list, i) ==
    IF i > Len(codecs) THEN <<>>
    ELSE TuplePart(codecs[i], list[i]) \o TupleLayout(codecs, list, i + 1)

RECURSIVE VectorLayout(_, _, _)
\* The elements i.. of a list, each as varint(byte length) and its bytes.
VectorLayout(c, list, i) ==
    IF i > Len(list) THEN <<>>
    ELSE Leb128(FromInt(Len(Encode(c, list[i]).bytes))) \o Encode(c, list[i]).bytes
         \o VectorLayout(c, list, i + 1)

\* A non-negative integer within the safe-integer range: 0 <= n <= 2^53 - 1.
IsNonNegativeSafeInteger(n) ==
    /\ DOMAIN n = {"hi", "lo"}
    /\ NumLeq(Zero, n)
    /\ NumLeq(n, Num(2^25 - 1, 2^28 - 1))

\* The caller has encoded a value (and perhaps decoded the result).
HasEncoded == pc \in {"encoded", "decoded"} /\ value # None

\* The caller has decoded what it encoded.
HasRoundTripped == pc = "decoded" /\ value # None

(***************************************************************************)
(* Properties.                                                             *)
(***************************************************************************)
\* C1: Tuple.encode returns exactly the concatenation, in declaration
\* order and with no outer framing, of one part per child: the child's raw
\* encoding when it is fixed-stride, varint(byte length) and the encoding
\* when it is variable-stride, whatever the child's position.
C1_TupleEncodeLayout ==
    (HasEncoded /\ codec.kind = "tuple") =>
        /\ encoded.ok
        /\ encoded.bytes = TupleLayout(codec.codecs, value.list, 1)

\* Tuple([u8, str]).encode([7, "hi"]) has returned [0x07, 0x02, 0x68, 0x69].
C1_Witness ==
    /\ pc = "encoded"
    /\ codec = Tuple(<<u8, str>>)
    /\ value = L(<<N(7), S(<<104, 105>>)>>)
    /\ encoded = Encoded(<<7, 2, 104, 105>>)

\* C2: for every Tuple and every value v of its domain,
\* Tuple.decode(Tuple.encode(v)) equals v.
C2_TupleRoundTrip ==
    (HasRoundTripped /\ codec.kind = "tuple") => decoded = Return(value)

\* C3: for every non-negative safe integer v, decodeVarInt(encodeVarInt(v))
\* returns value = v and bytesRead = the length of encodeVarInt(v).
C3_VarIntRoundTrip ==
    (HasRoundTripped /\ codec.kind = "varint" /\ IsNonNegativeSafeInteger(value)) =>
        /\ decoded.ok
        /\ decoded.value = value
        /\ decoded.bytesRead = Len(encoded.bytes)

\* C4: for every non-negative safe integer v, encodeVarInt(v) is the unsigned
\* LEB128 encoding of v: byte i carries bits 7i..7i+6, every byte but the
\* last has the high bit set, the last is non-zero unless v = 0.
C4_EncodeVarIntIsLeb128 ==
    (HasEncoded /\ codec.kind = "varint" /\ IsNonNegativeSafeInteger(value)) =>
        encoded = Encoded(Leb128(value))

\* C5: with a fixed-stride child Vector.encode returns len(list) * stride
\* bytes holding the elements' encodings back to back; with a
\* variable-stride child it returns, for each element in order,
\* varint(byte length) and the element's bytes; no element count either way.
C5_VectorEncodeLayout ==
    (HasEncoded /\ codec.kind = "vector") =>
        /\ encoded.ok
        /\ IF codec.codec.stride >= 0
           THEN /\ Len(encoded.bytes) = Len(value.list) * codec.codec.stride
                /\ \A i \in 1..Len(value.list) :
                       SubSeq(encoded.bytes, (i - 1) * codec.codec.stride + 1,
                              i * codec.codec.stride)
                           = Encode(codec.codec, value.list[i]).bytes
           ELSE encoded.bytes = VectorLayout(codec.codec, value.list, 1)

\* Vector(str).encode(["a", "bc"]) has returned [0x01, 'a', 0x02, 'b', 'c'].
C5_Witness ==
    /\ pc = "encoded"
    /\ codec = Vector(str)
    /\ value = L(<<S(<<97>>), S(<<98, 99>>)>>)
    /\ encoded = Encoded(<<1, 97, 2, 98, 99>>)

\* C6: for every child codec and every finite list l of values of the
\* child's domain, the empty list and lists of empty lists included,
\* Vector.decode(Vector.encode(l)) equals l, same element count and order.
C6_VectorRoundTrip ==
    (HasRoundTripped /\ codec.kind = "vector") => decoded = Return(value)

\* The codecs c1..cn of a shape in the order of declaration.
DeclaredCodecs(shape) == [i \in 1..Len(shape) |-> shape[i].codec]

\* C7: Struct wire order is declaration order: for fields declared f1..fn,
\* Struct.encode(v) equals Tuple([c1..cn]).encode([v.f1..v.fn]) and
\* Struct.decode re-attaches the i-th decoded element to field fi.
C7_StructDeclarationOrder ==
    (codec.kind = "struct") =>
        /\ HasEncoded =>
               encoded = Encode(Tuple(DeclaredCodecs(codec.shape)),
                                L([i \in 1..Len(codec.shape) |->
                                       value.obj[codec.shape[i].name]]))
        /\ (pc = "decoded") =>
               LET t == Decode(Tuple(DeclaredCodecs(codec.shape)), encoded.bytes)
               IN  /\ decoded.ok = t.ok
                   /\ t.ok => \A i \in 1..Len(codec.shape) :
                                  decoded.val.obj[codec.shape[i].name] = t.val.list[i]

\* The position of a tag in the ascending sort of the names: the number of
\* names that sort before it.
SortedPosition(names, tag) == Cardinality({n \in names : StrLess(n, tag)})

\* The names an enum was declared with.
VariantNames(c) == {c.variants[i].name : i \in 1..Len(c.variants)}

\* C8: for every set of variant names and every order of declaration, the
\* first byte Enum.encode writes for a tag is the tag's position in the
\* ascending sort of the names, so enums declared with the same names in
\* different orders write the same index for every tag.
C8_EnumDeterminism ==
    (HasEncoded /\ codec.kind = "enum" /\ value.kind \in VariantNames(codec)) =>
        /\ encoded.ok
        /\ encoded.bytes[1] = SortedPosition(VariantNames(codec), value.kind)
        /\ \A other \in Enums :
               (VariantNames(other) = VariantNames(codec)) =>
                   \A x \in Values(other) :
                       (x.kind = value.kind) =>
                           Encode(other, x).bytes[1] = encoded.bytes[1]

\* C9: for every Enum, every registered variant name k and every value x of
\* that variant's domain, Enum.decode(Enum.encode({kind: k, value: x}))
\* returns {kind: k, value: x}.
C9_EnumRoundTrip ==
    (HasRoundTripped /\ codec.kind = "enum") => decoded = Return(value)

\* C10: Option.encode(absent) is [0x00] and Option.encode(present(x)) is 0x01
\* and the child's encoding of x; Option.decode returns absent when the first
\* byte is 0 and otherwise the child's decoding of the bytes from offset 1;
\* so Option.decode(Option.encode(v)) equals v.
C10_OptionLayout ==
    (codec.kind = "option") =>
        /\ HasEncoded =>
               encoded = IF value = Null THEN Encoded(<<0>>)
                         ELSE Encoded(<<1>> \o Encode(codec.codec, value).bytes)
        /\ (pc = "decoded" /\ Len(encoded.bytes) >= 1) =>
               decoded = IF encoded.bytes[1] = 0 THEN Return(Null)
                         ELSE Decode(codec.codec, Tail(encoded.bytes))
        /\ HasRoundTripped => decoded = Return(value)

\* The key and value codecs a Mapping was built from.
KeyCodec(c) == c.entriesCodec.codec.codecs[1]

ValueCodec(c) == c.entriesCodec.codec.codecs[2]

\* C11: Mapping.encode(m) equals Vector(Tuple([K, V])).encode of m's entries
\* in iteration order (no sorting, no deduplication), and
\* Mapping.decode(Mapping.encode(m)) has the same entries in the same order.
C11_MappingOrder ==
    (codec.kind = "mapping") =>
        /\ HasEncoded =>
               encoded = Encode(Vector(Tuple(<<KeyCodec(codec), ValueCodec(codec)>>)),
                                L([i \in 1..Len(value.map) |->
                                       L(<<value.map[i].key, value.map[i].value>>)]))
        /\ HasRoundTripped => decoded = Return(value)

RECURSIVE Graph(_)
\* The codecs of a codec graph: the codec and the codecs it refers to.
Graph(c) ==
    {c} \cup
    CASE c.kind \in {"option", "vector"} -> Graph(c.codec)
      [] c.kind = "tuple"   -> UNION {Graph(c.codecs[i]) : i \in 1..Len(c.codecs)}
      [] c.kind = "struct"  ->
            Graph(c.tuple) \cup UNION {Graph(c.shape[i].codec) : i \in 1..Len(c.shape)}
      [] c.kind = "enum"    -> UNION {Graph(c.variants[i].codec) : i \in 1..Len(c.variants)}
      [] c.kind = "mapping" -> Graph(c.entriesCodec)
      [] OTHER              -> {}

RECURSIVE SumOfStrides(_)
\* The sum of the strides of a list of codecs.
SumOfStrides(codecs) ==
    IF codecs = <<>> THEN 0 ELSE Head(codecs).stride + SumOfStrides(Tail(codecs))

\* The stride of a tuple of these children: their sum when all are fixed.
StrideOfChildren(codecs) ==
    IF \E i \in 1..Len(codecs) : codecs[i].stride < 0 THEN -1 ELSE SumOfStrides(codecs)

\* C12: a Tuple's stride is the sum of its children's strides when every
\* child is fixed-stride (0 for no children) and the variable marker as soon
\* as any child is variable-stride; a Struct's stride is that of the Tuple of
\* its fields; Vector, Option, Enum and Mapping always report variable stride.
C12_StrideModel ==
    \A c \in Graph(codec) :
        /\ c.kind = "tuple" => c.stride = StrideOfChildren(c.codecs)
        /\ c.kind = "struct" => c.stride = StrideOfChildren(DeclaredCodecs(c.shape))
        /\ c.kind \in {"vector", "option", "enum", "mapping"} => c.stride = -1

\* A tuple of a fixed-stride tuple, a Vector and an Option has been built and
\* is variable; its first child has stride 2.
C12_Witness ==
    /\ codec = Tuple(<<Tuple(<<u8, bool>>), Vector(u8), Option(u16)>>)
    /\ codec.stride = -1
    /\ codec.codecs[1].stride = 2
    /\ pc = "encoded"

\* The input of decodeVarInt has a byte with the high bit clear.
HasTerminator(data) == \E i \in 1..Len(data) : data[i] < 128

\* The position of the first byte with the high bit clear.
Terminator(data) == CHOOSE i \in 1..Len(data) : data[i] < 128 /\ \A j \in 1..(i - 1) : data[j] >= 128

\* The sum of (byte_i mod 128) * 128^i over the first k bytes (k <= 8).
GroupSum(data, k) ==
    LET digit(i) == IF i < k THEN data[i + 1] % 128 ELSE 0
    IN  Num(digit(4) + 128 * digit(5) + 128 ^ 2 * digit(6) + 128 ^ 3 * digit(7),
            digit(0) + 128 * digit(1) + 128 ^ 2 * digit(2) + 128 ^ 3 * digit(3))

\* C13: decodeVarInt fails with Overflow if the accumulated shift exceeds 53
\* bits or the decoded value exceeds 2^53 - 1; whenever it returns, the value
\* is the non-negative sum of (byte_i mod 128) * 128^i over the bytes up to
\* and including the first byte with the high bit clear, at most 2^53 - 1.
C13_DecodeVarIntOverflow ==
    (pc = "decoded" /\ codec.kind = "varint") =>
        /\ HasTerminator(encoded.bytes) =>
               LET k == Terminator(encoded.bytes)
               IN  IF 7 * (k - 1) > 53 \/ ~IsSafeInteger(GroupSum(encoded.bytes, k))
                   THEN decoded = Throw("RangeError")
                   ELSE decoded.ok
        /\ decoded.ok =>
               /\ HasTerminator(encoded.bytes)
               /\ Terminator(encoded.bytes) <= 8
               /\ decoded.value = GroupSum(encoded.bytes, Terminator(encoded.bytes))
               /\ NumLeq(Zero, decoded.value)
               /\ IsSafeInteger(decoded.value)

\* C14: on an input that ends before a byte with the high bit clear appears
\* decodeVarInt returns no value and fails; it fails with Truncated
\* ("Incomplete VarInt") when the input ends before the shift passes 53 bits.
C14_DecodeVarIntTruncated ==
    (pc = "decoded" /\ codec.kind = "varint" /\ ~HasTerminator(encoded.bytes)) =>
        /\ decoded \in {Throw("Error"), Throw("RangeError")}
        /\ 7 * Len(encoded.bytes) <= 53 => decoded = Throw("Error")

\* decodeVarInt([0x80]) has thrown "Incomplete VarInt".
C14_Witness ==
    /\ pc = "decoded"
    /\ codec.kind = "varint"
    /\ encoded = Encoded(<<128>>)
    /\ decoded = Throw("Error")

\* C15: for every value that is negative, not an integer or outside the
\* safe-integer range, encodeVarInt fails with InvalidInput (RangeError) and
\* returns no bytes; for every non-negative safe integer it does not fail.
C15_EncodeVarIntValidation ==
    (pc = "encoded" /\ codec.kind = "varint") =>
        IF IsNonNegativeSafeInteger(value)
        THEN encoded.ok
        ELSE encoded = Throw("RangeError")

\* encodeVarInt(2^53) has thrown a RangeError.
C15_Witness ==
    /\ pc = "encoded"
    /\ codec.kind = "varint"
    /\ value = Num(2^25, 0)
    /\ encoded = Throw("RangeError")

\* C16: Enum.encode fails with InvalidVariant when the tag is not one of
\* the registered variant names and writes no bytes; Enum.decode fails with
\* InvalidVariant when the first byte is an index >= the number of variants.
C16_EnumVariantErrors ==
    (codec.kind = "enum") =>
        /\ (pc = "encoded" /\ value.kind \notin VariantNames(codec)) =>
               encoded = Throw("Error")
        /\ (pc = "decoded" /\ encoded.bytes # <<>>
                /\ encoded.bytes[1] >= Cardinality(VariantNames(codec))) =>
               decoded = Throw("Error")

\* Enum({A: u8, B: str}).encode({kind: "C", value: 7}) has thrown.
C16_Witness ==
    /\ pc = "encoded"
    /\ codec = EnumAB
    /\ value = [kind |-> <<67>>, value |-> N(7)]
    /\ encoded = Throw("Error")

\* The bytes left at an offset of a buffer.
Remaining(data, offset) == IF offset > Len(data) THEN 0 ELSE Len(data) - offset

RECURSIVE ShortFixedRead(_, _, _, _)
\* Walking the children i.. of a tuple over a buffer from an offset (a
\* fixed-stride child takes its stride, a variable-stride child its varint
\* prefix and that many bytes), a fixed-stride child is reached where fewer
\* bytes remain than its stride.  Prefixes of up to 4 bytes are followed.
ShortFixedRead(codecs, data, i, offset) ==
    IF i > Len(codecs) THEN FALSE
    ELSE IF codecs[i].stride >= 0
    THEN \/ Remaining(data, offset) < codecs[i].stride
         \/ ShortFixedRead(codecs, data, i + 1, offset + codecs[i].stride)
    ELSE LET rest == SubSeq(data, offset + 1, Len(data))
         IN  IF ~HasTerminator(rest) \/ Terminator(rest) > 4 THEN FALSE
             ELSE ShortFixedRead(codecs, data, i + 1,
                      offset + Terminator(rest) + GroupSum(rest, Terminator(rest)).lo)

\* The children of a Tuple or Struct in wire order.
Children(c) == IF c.kind = "struct" THEN DeclaredCodecs(c.shape) ELSE c.codecs

\* C17: for every Tuple or Struct and every input buffer, if at the position
\* of a fixed-stride child fewer bytes remain than that child's stride,
\* decode fails (Truncated) and returns no value.
C17_TruncatedFixedRead ==
    (pc = "decoded" /\ codec.kind \in {"tuple", "struct"}
        /\ ShortFixedRead(Children(codec), encoded.bytes, 1, 0)) => ~decoded.ok

\* The lengths the caller builds fixed-length Bytes codecs with.
FixedLengths == {3, 4}

\* C18: a Bytes codec constructed with a fixed length n (new Bytes(4)) has
\* stride n, round-trips every n-byte buffer, and its encode fails with a
\* RangeError when given a buffer whose length is not n.
C18_FixedLengthBytes ==
    \A n \in FixedLengths :
        (codec = Bytes(n)) =>
            /\ codec.stride = n
            /\ (HasEncoded /\ Len(value.u8a) # n) => encoded = Throw("RangeError")
            /\ (HasRoundTripped /\ Len(value.u8a) = n) => decoded = Return(value)

\* C19: for every Vector with a fixed-stride child of stride s > 0 and every
\* input buffer of length L, Vector.decode raises no error for the length and
\* returns exactly floor(L / s) elements, the i-th decoded from bytes
\* [i*s, (i+1)*s); the trailing L mod s bytes are dropped.
C19_VectorTruncationTolerance ==
    (pc = "decoded" /\ codec.kind = "vector" /\ codec.codec.stride > 0) =>
        LET s == codec.codec.stride
        IN  /\ decoded.ok
            /\ Len(decoded.val.list) = Len(encoded.bytes) \div s
            /\ \A i \in 1..Len(decoded.val.list) :
                   Return(decoded.val.list[i])
                       = Decode(codec.codec, SubSeq(encoded.bytes, (i - 1) * s + 1, i * s))

\* Vector(u16).decode([1, 2, 128]) has returned [513], dropping the last byte.
C19_Witness ==
    /\ pc = "decoded"
    /\ codec = Vector(u16)
    /\ encoded = Encoded(<<1, 2, 128>>)
    /\ decoded = Return(L(<<N(513)>>))

\* The outcome of a call run alone.
Alone(c, call) == IF call.op = "encode" THEN Encode(c, call.arg) ELSE Decode(c, call.arg.u8a)

\* C20: in every interleaving of encode and decode calls issued by several
\* callers on one codec graph, each call returns the result it returns when
\* run alone, and no call changes the codec graph (strides, child codecs,
\* field names, sorted variant names).
C20_ConcurrentReuse ==
    [][/\ codec' = codec
       /\ \A self \in Callers :
              pc'[self] = "done" => decoded'[self] = Alone(codec, value[self])]_vars

\* Two calls of Tuple.decode on the shared Tuple([u8, str]) are both inside
\* their loops, at different offsets of their own buffers.
C20_Witness ==
    /\ codec = Tuple(<<u8, str>>)
    /\ pc[1] = "decode" /\ pc[2] = "decode"
    /\ value[1].arg = U8A(<<7, 2, 104, 105>>) /\ value[2].arg = U8A(<<0, 0>>)
    /\ encoded[1].i = 1 /\ encoded[2].i = 2

\* The bytes of the first buffer (the caller's) that a step changed.
Changed == {i \in 1..Len(encoded[1]) : encoded'[1][i] # encoded[1][i]}

\* A view shows byte i of its buffer.
Shows(w, i) == w.from < i /\ i <= w.from + w.len

\* C21: for every codec that carries raw bytes, what encode returns shares no
\* storage with the value passed in and what decode returns shares none with
\* the input buffer, so a write to one after the call never changes the
\* other; encode and decode never write to their argument.
C21_NoAliasing ==
    [][/\ pc \in {"encode", "decode"} => encoded'[1] = encoded[1]
       /\ pc' = "wroteArgument" => Deref(encoded', decoded.val) = Deref(encoded, decoded.val)
       /\ pc' = "wroteResult" => Deref(encoded', value.arg) = Deref(encoded, value.arg)]_vars

\* C21 as the code has it: encode and decode never write to their argument;
\* encode of bytes alone returns the very Uint8Array it was given, encode of
\* every composite returns a new buffer, which no write to the argument
\* changes and a write to which changes no argument; every Uint8Array that
\* decode returns is a view of the input's buffer inside the input (the
\* input itself for bytes alone) and reads as Decode says, so a write to the
\* input changes the decoded value exactly when a returned view shows the
\* written byte, and a write to a returned view changes the input.
C21_AliasingAsBuilt ==
    [][/\ pc \in {"encode", "decode"} => encoded'[1] = encoded[1]
       /\ (pc = "encode" /\ decoded'.ok) =>
              IF codec = bytes THEN decoded'.val = value.arg
              ELSE /\ decoded'.val.view.buf = 2
                   /\ \A w \in ViewsIn(value.arg) : w.buf = 1
                   /\ ViewBytes(encoded', decoded'.val.view)
                          = Encode(codec, Deref(encoded, value.arg)).bytes
       /\ (value.op = "encode" /\ codec # bytes /\ pc' = "wroteArgument") =>
              Deref(encoded', decoded.val) = Deref(encoded, decoded.val)
       /\ (value.op = "encode" /\ codec # bytes /\ pc' = "wroteResult") =>
              Deref(encoded', value.arg) = Deref(encoded, value.arg)
       /\ (value.op = "encode" /\ codec = bytes /\ pc' \in {"wroteArgument", "wroteResult"}) =>
              /\ Deref(encoded', decoded.val) # Deref(encoded, decoded.val)
              /\ Deref(encoded', decoded.val) = Deref(encoded', value.arg)
       /\ (pc = "decode" /\ decoded'.ok) =>
              /\ Deref(encoded, decoded'.val) = Decode(codec, ViewBytes(encoded, value.arg.view)).val
              /\ \A w \in ViewsIn(decoded'.val) :
                     /\ w.buf = value.arg.view.buf
                     /\ w.from >= value.arg.view.from
                     /\ w.from + w.len <= value.arg.view.from + value.arg.view.len
              /\ codec = bytes => decoded'.val = value.arg
       /\ (value.op = "decode" /\ pc' = "wroteArgument") =>
              (Deref(encoded', decoded.val) # Deref(encoded, decoded.val)
                   <=> \E w \in ViewsIn(decoded.val) : \E i \in Changed : Shows(w, i))
       /\ (value.op = "decode" /\ pc' = "wroteResult") =>
              Deref(encoded', value.arg) # Deref(encoded, value.arg)]_vars

\* Tuple([u8, bytes]).decode([7, 2, 1, 2]) returned [7, Uint8Array [1, 2]];
\* the caller then set byte 2 of its input to 2 and the decoded value reads
\* [7, Uint8Array [2, 2]].
C21_Witness ==
    /\ pc = "wroteArgument"
    /\ codec = Tuple(<<u8, bytes>>)
    /\ value.op = "decode"
    /\ encoded = <<<<7, 2, 2, 2>>>>
    /\ decoded.val = L(<<N(7), View(1, 2, 2)>>)
    /\ Deref(encoded, decoded.val) = L(<<N(7), U8A(<<2, 2>>)>>)

\* C22: Vector.decode terminates: on every finite buffer and with every child
\* codec (a stride of 0 and five-byte length prefixes of 2^31 or more
\* included) every call of Vector.decode eventually returns a list or
\* raises an error.
C22_VectorDecodeTerminates ==
    <>(codec.kind = "vector" => \A self \in Callers : pc[self] = "done")

\* The codec of the element that caller self's decode loop is about to read.
NextChild(self) ==
    IF codec.kind = "tuple" THEN codec.codecs[encoded[self].i + 1] ELSE codec.codec

\* Caller self is in Tuple.decode, or in Vector.decode with a variable-stride
\* child, with an iteration of the loop to run.
AtDecodeIteration(self) ==
    /\ pc[self] = "decode"
    /\ \/ codec.kind = "tuple" /\ encoded[self].i < Len(codec.codecs)
       \/ /\ codec.kind = "vector" /\ codec.codec.stride < 0
          /\ NumLess(encoded[self].offset, FromInt(Len(value[self].arg.u8a)))

\* C23: at every iteration of Tuple.decode and of Vector.decode with a
\* variable-stride child, on any buffer, the read offset never decreases and
\* never passes the end of the buffer, and the slice handed to a
\* variable-stride child has exactly the length its varint prefix gives;
\* when the prefix announces more bytes than remain the call fails instead
\* of going on with a shorter slice.
C23_DecodeCursor ==
    [][\A self \in Callers :
           (AtDecodeIteration(self) /\ <<pc[self], encoded[self]>>' # <<pc[self], encoded[self]>>) =>
               LET data   == value[self].arg.u8a
                   offset == encoded[self].offset
                   prefix == decodeVarInt(subarrayFrom(data, offset))
                   start  == NumAdd(offset, FromInt(prefix.bytesRead))
                   part   == subarray(data, start, NumAdd(start, prefix.value))
                   failed == pc'[self] = "done" /\ ~decoded'[self].ok
               IN  /\ pc'[self] = "decode" =>
                          /\ NumLeq(offset, encoded'[self].offset)
                          /\ NumLeq(encoded'[self].offset, FromInt(Len(data)))
                   /\ (NextChild(self).stride < 0 /\ prefix.ok) =>
                          FromInt(Len(part)) = prefix.value \/ failed]_vars

====
